---- MODULE Spec2Model ----
(***************************************************************************)
(* State-machine model of the ChartSelect React component (superset-       *)
(* frontend/src/components/Select/ChartSelect.tsx).                        *)
(*                                                                         *)
(* The component is a controlled select: the parent owns the prop `value`  *)
(* and is told about user changes through `onChange`.  The component keeps *)
(* two pieces of local state, `selectedChart` and `isLoadingSelected`, and *)
(* starts one GET /api/v1/chart/<value> per run of its useEffect([value])  *)
(* that passes the early returns.  A render with a new `value` and the     *)
(* effect of that render are two steps: the render shows the new value     *)
(* with the state as it is, the effect runs afterwards with the `value`    *)
(* and the `selectedChart` of that render.  The .then or .catch handler of *)
(* a request and its .finally handler are two steps as well, so handlers   *)
(* of other requests run in between.  A handler that runs while an effect  *)
(* is scheduled leaves it scheduled: the effect runs, as a step of its     *)
(* own, before the next render.  null, undefined and 0 are distinct values *)
(* of `value`.                                                             *)
(*                                                                         *)
(* Five specifications share the module:                                   *)
(*   Spec      - ChartSelect: changes of `value`, the effect, the          *)
(*               by-identifier requests and unmount;                       *)
(*   EventSpec - ChartSelect with its other props and the change events    *)
(*               handed to handleChange;                                   *)
(*   ListSpec  - loadChartOptions and the option list of the select        *)
(*               control it feeds;                                         *)
(*   ColSpec   - ColumnSelect: its renders and the effects flushed after;  *)
(*   IdSpec    - the pure helper getDatasetId applied to bounded inputs.   *)
(* Each specification holds the variables of the others constant.          *)
(***************************************************************************)
EXTENDS Integers, Sequences, FiniteSets, TLC

\* ---------------------------------------------------------------- bounds
\* chart identifiers are 1..MaxId (primary keys of the chart table)
MaxId == 2
\* at most MaxFetches by-identifier requests are issued in one behaviour
MaxFetches == 2
\* the change events are exercised in behaviours with at most MaxEventFetches
\* by-identifier requests
MaxEventFetches == 1
\* at most MaxCalls invocations of the consumer's onChange are recorded
MaxCalls == 1
\* dataset identifiers are 1..MaxDataset (primary keys of the dataset table)
MaxDataset == 2
\* at most MaxListRequests list requests are issued in one behaviour
MaxListRequests == 3
\* a list response carries at most MaxResult rows
MaxResult == 2
\* pages 0..MaxPage are requested
MaxPage == 1
\* a dataset has MaxColumns columns
MaxColumns == 3
\* dataset identifiers in datasource strings are -1..MaxDatasourceId
MaxDatasourceId == 20

Ids == 1..MaxId
DatasetIds == 1..MaxDataset

\* ------------------------------------------------------------ JS values
\* identifier-typed props and callback arguments are integers: -1 stands for
\* the JavaScript null, -2 for undefined, every other integer for itself
NullId == 0 - 1
UndefinedId == 0 - 2
\* `value?: number | null` absent, and the null handed to onChange
NoValue == NullId
\* `datasetId?: number` absent
NoDataset == UndefinedId
\* !n for an identifier: null, undefined and 0 are falsy
Falsy(n) == n <= 0
\* n == null for an identifier: null and undefined
Nullish(n) == n < 0
\* the values the parent passes as `value`
Values == {NullId, UndefinedId, 0} \cup Ids
\* the values the parent passes as `datasetId`
DatasetProps == {NoDataset, 0} \cup DatasetIds
\* the JavaScript `undefined` held by selectedChart / returned by selectedValue
Undefined == [undefined |-> TRUE]
\* t('Loading...')
LoadingLabel == "Loading..."

\* the dataset a chart is built on (datasource_id of the chart row)
ChartDatasource(i) == ((i - 1) % MaxDataset) + 1

\* a chart row as the REST API returns it in json.result
ChartRecord(i) ==
    [id |-> i,
     slice_name |-> "Test Chart " \o ToString(i),
     viz_type |-> IF i % 2 = 1 THEN "table" ELSE "bar"]

\* the row the test 'loads and displays selected chart name' answers with
SelectedChartFixture ==
    [id |-> 2, slice_name |-> "Selected Chart", viz_type |-> "bar"]

\* the bodies GET /api/v1/chart/<id> may answer with; the server chooses, and
\* the identifier of the body need not be the one requested
ServerBodies == {ChartRecord(i) : i \in Ids} \cup {SelectedChartFixture}

\* `${chart.slice_name} (${chart.viz_type})`
ChartLabel(chart) == chart.slice_name \o " (" \o chart.viz_type \o ")"

\* the option built by the .then handler from json.result
ChartOption(chart) ==
    [value |-> chart.id, label |-> ChartLabel(chart), viz_type |-> chart.viz_type]

\* `Chart ${value}`
FallbackLabel(v) == "Chart " \o ToString(v)

\* the option built by the .catch handler; `value` is the effect's closure value
FallbackOption(v) == [value |-> v, label |-> FallbackLabel(v)]

\* { value, label: t('Loading...') }
LoadingOption(v) == [value |-> v, label |-> LoadingLabel]

VARIABLES
    mounted,            \* TRUE until React unmounts the component
    value,              \* prop value (null, undefined or a number)
    datasetId,          \* prop datasetId (undefined or a number)
    clearable,          \* prop clearable (allowClear of the select control)
    selectedChart,      \* useState<ChartOption | undefined>
    isLoadingSelected,  \* useState(false)
    pendingEffect,      \* the useEffect([value]) run scheduled by the last render
    inflight,           \* by-identifier requests whose handlers have not all run
    requests,           \* ids of the by-identifier requests issued, in order
    onChangeCalls,      \* arguments of the calls of props.onChange, in order
    lastOp              \* the last handler that ran, its input and pre-state

VARIABLES
    searchText,         \* search text of the select control
    listPage,           \* index of the last page requested
    listSeq,            \* number of list requests issued
    lastResetSeq,       \* sequence number of the last first-page request
    listPending,        \* list requests whose HTTP response is outstanding
    visibleOptions,     \* options shown in the dropdown
    listLast            \* the last list step: request, response, outcome

listVars == <<searchText, listPage, listSeq, lastResetSeq, listPending,
              visibleOptions, listLast>>

VARIABLES
    colDatasetId,       \* ColumnSelect prop datasetId
    colDataset,         \* ColumnSelect prop dataset (Undefined or a dataset)
    colValue,           \* ColumnSelect prop value
    colFilter,          \* ColumnSelect prop filterValues
    colSetFields,       \* calls of form.setFields made since the last render
    colPending,         \* the effects of the last render, while they wait
    colLast             \* the last step of ColumnSelect and what it did

colVars == <<colDatasetId, colDataset, colValue, colFilter, colSetFields,
             colPending, colLast>>

VARIABLES
    idCase,             \* how the argument of getDatasetId was built
    idArg,              \* the argument handed to getDatasetId
    idLast              \* the last call of getDatasetId and its result

utilVars == <<idCase, idArg, idLast>>

\* the arguments of getDatasetId (string | number)
StringArg(s) == [kind |-> "string", s |-> s]
NumberArg(n) == [kind |-> "number", n |-> n]

\* getDatasetId has not been called
UtilIdle ==
    /\ idCase = [form |-> "none", text |-> "", n |-> 0]
    /\ idArg = NumberArg(0)
    /\ idLast = [op |-> "none"]

compVars == <<mounted, value, datasetId, clearable, selectedChart,
              isLoadingSelected, pendingEffect, inflight, requests,
              onChangeCalls, lastOp>>

vars == <<compVars, listVars, colVars, utilVars>>

\* selectedValue without the `if (!value) return undefined` guard
SelectedValueOf_NoValueGuard(v, sc, loading) ==
    IF loading THEN LoadingOption(v)
    ELSE IF sc # Undefined THEN sc
    ELSE LoadingOption(v)

\* useMemo selectedValue: what is handed to <AsyncSelect value=...>
SelectedValueOf(v, sc, loading) ==
    IF Falsy(v) THEN Undefined
    ELSE IF loading THEN LoadingOption(v)
    ELSE IF sc # Undefined THEN sc
    ELSE LoadingOption(v)

selectedValue == SelectedValueOf(value, selectedChart, isLoadingSelected)

\* snapshot of the component taken before a handler runs
Snapshot ==
    [value |-> value, selectedChart |-> selectedChart,
     isLoadingSelected |-> isLoadingSelected, inflight |-> inflight,
     nreq |-> Len(requests), ncalls |-> Len(onChangeCalls),
     selectedValue |-> selectedValue]

\* a useState setter called with `new` where the state is `old`: the update
\* of an unmounted component is dropped by the React runtime
SetState(new, old) == IF mounted THEN new ELSE old

\* no effect run is scheduled
NoEffect == [pending |-> FALSE]
\* the effect created by a render: its closure holds the `value` and the
\* `selectedChart` of that render
EffectOf(v, sc) == [pending |-> TRUE, value |-> v, selectedChart |-> sc]

\* a request whose promise has not settled
Pending(seq, id) ==
    [seq |-> seq, id |-> id, stage |-> "pending", result |-> Undefined]

\* the effect without the "already loaded" early return
EffectFetches_AlwaysReload(v, sc) == ~Falsy(v)

\* the effect returning early whenever some chart is loaded
EffectFetches_AnyLoaded(v, sc) == ~Falsy(v) /\ sc = Undefined

\* the early returns of useEffect([value]): TRUE when a request is started
EffectFetches(v, sc) ==
    /\ ~Falsy(v)
    /\ ~(sc # Undefined /\ sc.value = v)

\* the state the effect and the promise handlers write
Cells ==
    [selectedChart |-> selectedChart, isLoadingSelected |-> isLoadingSelected,
     inflight |-> inflight, requests |-> requests]

StoreCells(c) ==
    /\ selectedChart' = c.selectedChart
    /\ isLoadingSelected' = c.isLoadingSelected
    /\ inflight' = c.inflight
    /\ requests' = c.requests

\* the body of useEffect([value]) with the `value` v and the `selectedChart`
\* sc of the render that created it, applied to the cells c
Effect(v, sc, c) ==
    IF Falsy(v)
    THEN [c EXCEPT !.selectedChart = Undefined]
    ELSE IF ~EffectFetches(v, sc)
    THEN c
    ELSE [c EXCEPT !.isLoadingSelected = TRUE,
                   !.requests = Append(c.requests, v),
                   !.inflight = c.inflight
                                    \cup {Pending(Len(c.requests) + 1, v)}]

\* the first render: useState initialisers; the effect of the mount is
\* scheduled
CompInit ==
    /\ mounted = TRUE
    /\ value \in Values
    /\ datasetId \in DatasetProps
    /\ clearable \in BOOLEAN
    /\ selectedChart = Undefined
    /\ isLoadingSelected = FALSE
    /\ pendingEffect = EffectOf(value, Undefined)
    /\ requests = <<>>
    /\ inflight = {}
    /\ onChangeCalls = <<>>
    /\ lastOp = [op |-> "mount"]

\* the component mounted without a value, its mount effect run
CompIdle ==
    /\ mounted = TRUE
    /\ value = NoValue
    /\ clearable = TRUE
    /\ selectedChart = Undefined
    /\ isLoadingSelected = FALSE
    /\ pendingEffect = NoEffect
    /\ requests = <<>>
    /\ inflight = {}
    /\ onChangeCalls = <<>>
    /\ lastOp = [op |-> "mount"]

\* the parent re-renders the component with another `value`: the render
\* uses the state as it is and schedules the effect (dependency [value])
SetValue(v) ==
    /\ mounted
    /\ pendingEffect = NoEffect
    /\ v # value
    /\ EffectFetches(v, selectedChart) => Len(requests) < MaxFetches
    /\ value' = v
    /\ pendingEffect' = EffectOf(v, selectedChart)
    /\ UNCHANGED <<listVars, colVars, utilVars>>
    /\ lastOp' = [op |-> "SetValue", arg |-> v, pre |-> Snapshot]
    /\ UNCHANGED <<mounted, datasetId, clearable, selectedChart,
                   isLoadingSelected, inflight, requests, onChangeCalls>>

\* the scheduled effect runs, after the render that created it and after
\* whatever promise handlers ran since; its setters are queued behind theirs
RunEffect ==
    /\ mounted
    /\ pendingEffect # NoEffect
    /\ StoreCells(Effect(pendingEffect.value, pendingEffect.selectedChart,
                         Cells))
    /\ pendingEffect' = NoEffect
    /\ UNCHANGED <<listVars, colVars, utilVars>>
    /\ lastOp' = [op |-> "RunEffect", effect |-> pendingEffect,
                  pre |-> Snapshot]
    /\ UNCHANGED <<mounted, value, datasetId, clearable, onChangeCalls>>

\* the parent re-renders the component with another `clearable`
SetClearable(b) ==
    /\ mounted
    /\ pendingEffect = NoEffect
    /\ b # clearable
    /\ clearable' = b
    /\ UNCHANGED <<listVars, colVars, utilVars>>
    /\ lastOp' = [op |-> "SetClearable", arg |-> b, pre |-> Snapshot]
    /\ UNCHANGED <<mounted, value, datasetId, selectedChart, pendingEffect,
                   isLoadingSelected, inflight, requests, onChangeCalls>>

\* the request f with its promise settled and its .finally handler queued
Settled(f, stage, result) == [f EXCEPT !.stage = stage, !.result = result]

\* a .then handler that also reports the loaded chart to the consumer
ResolveFetch_NotifiesConsumer(f, chart) ==
    /\ f \in inflight
    /\ f.stage = "pending"
    /\ selectedChart' = SetState(ChartOption(chart), selectedChart)
    /\ inflight' = (inflight \ {f}) \cup {Settled(f, "resolved", chart)}
    /\ UNCHANGED <<isLoadingSelected, requests, pendingEffect>>
    /\ onChangeCalls' = Append(onChangeCalls, chart.id)
    /\ UNCHANGED <<listVars, colVars, utilVars>>
    /\ lastOp' = [op |-> "ResolveFetch", arg |-> f, result |-> chart,
                  pre |-> Snapshot]
    /\ UNCHANGED <<mounted, value, datasetId, clearable>>

\* .then(({ json }) => ...): the request f succeeded with json.result =
\* chart; the .finally handler is queued behind it
ResolveFetch(f, chart) ==
    /\ f \in inflight
    /\ f.stage = "pending"
    /\ selectedChart' = SetState(ChartOption(chart), selectedChart)
    /\ inflight' = (inflight \ {f}) \cup {Settled(f, "resolved", chart)}
    /\ UNCHANGED <<isLoadingSelected, requests, pendingEffect>>
    /\ UNCHANGED <<listVars, colVars, utilVars>>
    /\ lastOp' = [op |-> "ResolveFetch", arg |-> f, result |-> chart,
                  pre |-> Snapshot]
    /\ UNCHANGED <<mounted, value, datasetId, clearable, onChangeCalls>>

\* .catch(error => ...): the request f failed, or the .then handler threw on
\* a body without `result`; the .finally handler is queued behind it
RejectFetch(f) ==
    /\ f \in inflight
    /\ f.stage = "pending"
    /\ selectedChart' = SetState(FallbackOption(f.id), selectedChart)
    /\ inflight' = (inflight \ {f}) \cup {Settled(f, "rejected", Undefined)}
    /\ UNCHANGED <<isLoadingSelected, requests, pendingEffect>>
    /\ UNCHANGED <<listVars, colVars, utilVars>>
    /\ lastOp' = [op |-> "RejectFetch", arg |-> f, pre |-> Snapshot]
    /\ UNCHANGED <<mounted, value, datasetId, clearable, onChangeCalls>>

\* .finally(() => setIsLoadingSelected(false)) of the request f, a later
\* microtask than its .then or .catch handler
FinallyFetch(f) ==
    /\ f \in inflight
    /\ f.stage # "pending"
    /\ isLoadingSelected' = SetState(FALSE, isLoadingSelected)
    /\ inflight' = inflight \ {f}
    /\ UNCHANGED <<selectedChart, requests, pendingEffect>>
    /\ UNCHANGED <<listVars, colVars, utilVars>>
    /\ lastOp' = [op |-> "FinallyFetch", arg |-> f, pre |-> Snapshot]
    /\ UNCHANGED <<mounted, value, datasetId, clearable, onChangeCalls>>

\* the payloads AsyncSelect hands to its onChange prop
JsNull == [kind |-> "null"]
JsUndefined == [kind |-> "undefined"]
ObjectPayload(opt) == [kind |-> "object", value |-> opt.value, label |-> opt.label]
NumberPayload(n) == [kind |-> "number", n |-> n]
\* an array payload (multiple mode): typeof 'object', no 'value' property
ArrayPayload(items) == [kind |-> "object", items |-> items]

\* the JavaScript value a payload without a 'value' property stands for
PayloadItself(newValue) ==
    IF newValue.kind = "number" THEN newValue.n ELSE newValue.items

\* handleChange reading the identifier of an object payload from a field the
\* payload does not have
OnChangeArg_MissingField(newValue) ==
    IF newValue.kind \in {"null", "undefined"} THEN NoValue
    ELSE IF newValue.kind = "object" /\ "value" \in DOMAIN newValue
    THEN NoValue
    ELSE PayloadItself(newValue)

\* the argument handleChange passes to props.onChange (NoValue is null)
OnChangeArg(newValue) ==
    IF newValue.kind \in {"null", "undefined"} THEN NoValue
    ELSE IF newValue.kind = "object" /\ "value" \in DOMAIN newValue
    THEN newValue.value
    ELSE PayloadItself(newValue)

\* handleChange returning early, without calling onChange, on null/undefined
HandleChange_SkipsNull(newValue, event) ==
    /\ mounted
    /\ pendingEffect = NoEffect
    /\ Len(onChangeCalls) < MaxCalls
    /\ onChangeCalls' = IF newValue.kind \in {"null", "undefined"}
                        THEN onChangeCalls
                        ELSE Append(onChangeCalls, OnChangeArg(newValue))
    /\ UNCHANGED <<listVars, colVars, utilVars>>
    /\ lastOp' = [op |-> event, arg |-> newValue, pre |-> Snapshot]
    /\ UNCHANGED <<mounted, value, datasetId, clearable, selectedChart,
                   isLoadingSelected, pendingEffect, inflight, requests>>

\* handleChange(newValue): one call of props.onChange, no state update
HandleChange(newValue, event) ==
    /\ mounted
    /\ pendingEffect = NoEffect
    /\ Len(onChangeCalls) < MaxCalls
    /\ onChangeCalls' = Append(onChangeCalls, OnChangeArg(newValue))
    /\ UNCHANGED <<listVars, colVars, utilVars>>
    /\ lastOp' = [op |-> event, arg |-> newValue, pre |-> Snapshot]
    /\ UNCHANGED <<mounted, value, datasetId, clearable, selectedChart,
                   isLoadingSelected, pendingEffect, inflight, requests>>

\* the user presses the clear icon, which the select control renders when
\* allowClear is set and a value is displayed
Clear(newValue) ==
    /\ clearable
    /\ selectedValue # Undefined
    /\ newValue \in {JsNull, JsUndefined}
    /\ HandleChange(newValue, "Clear")

\* the options the dropdown offers
DropdownOptions == {ChartOption(ChartRecord(i)) : i \in Ids}

\* the user picks an option of the dropdown (labelInValue payload)
PickOption(opt) ==
    /\ opt \in DropdownOptions
    /\ HandleChange(ObjectPayload(opt), "PickOption")

\* the bare numbers the select control can report
RawIds == {0} \cup Ids

\* the select control reports a bare identifier
ChangeRaw(n) ==
    /\ n \in RawIds
    /\ HandleChange(NumberPayload(n), "ChangeRaw")

\* the identifier arrays the select control can report
ArrayItems == {<<>>} \cup {<<i>> : i \in Ids} \cup {<<1, MaxId>>}

\* the select control reports an array of identifiers
ChangeArray(items) ==
    /\ items \in ArrayItems
    /\ HandleChange(ArrayPayload(items), "ChangeArray")

\* a datasetId change that resets the selection, as ColumnSelect does
SetDatasetId_ResetsSelection(d) ==
    /\ mounted
    /\ pendingEffect = NoEffect
    /\ d # datasetId
    /\ datasetId' = d
    /\ selectedChart' = Undefined
    /\ UNCHANGED <<listVars, colVars, utilVars>>
    /\ lastOp' = [op |-> "SetDatasetId", arg |-> d, pre |-> Snapshot]
    /\ UNCHANGED <<mounted, value, clearable, isLoadingSelected, inflight,
                   pendingEffect, requests, onChangeCalls>>

\* the parent re-renders the component with another `datasetId`: only the
\* loadChartOptions callback depends on it
SetDatasetId(d) ==
    /\ mounted
    /\ pendingEffect = NoEffect
    /\ d # datasetId
    /\ datasetId' = d
    /\ UNCHANGED <<listVars, colVars, utilVars>>
    /\ lastOp' = [op |-> "SetDatasetId", arg |-> d, pre |-> Snapshot]
    /\ UNCHANGED <<mounted, value, clearable, selectedChart, pendingEffect,
                   isLoadingSelected, inflight, requests, onChangeCalls>>

\* React unmounts the component; the effect returns no cleanup function, so
\* the pending requests keep their handlers
Unmount ==
    /\ mounted
    /\ pendingEffect = NoEffect
    /\ mounted' = FALSE
    /\ UNCHANGED <<listVars, colVars, utilVars>>
    /\ lastOp' = [op |-> "Unmount", pre |-> Snapshot]
    /\ UNCHANGED <<value, datasetId, clearable, selectedChart, pendingEffect,
                   isLoadingSelected, inflight, requests, onChangeCalls>>

\* a change of `value` in the behaviours that exercise the change events
EventSetValue(v) ==
    /\ Len(requests) < MaxEventFetches
    /\ SetValue(v)

\* the value effect and the by-identifier requests
CompNext ==
    \/ \E v \in Values : SetValue(v)
    \/ RunEffect
    \/ \E f \in inflight : \E chart \in ServerBodies : ResolveFetch(f, chart)
    \/ \E f \in inflight : RejectFetch(f)
    \/ \E f \in inflight : FinallyFetch(f)
    \/ Unmount

\* the component with its change events and its other props
EventNext ==
    \/ \E v \in Values : EventSetValue(v)
    \/ RunEffect
    \/ \E b \in BOOLEAN : SetClearable(b)
    \/ \E f \in inflight : \E chart \in ServerBodies : ResolveFetch(f, chart)
    \/ \E f \in inflight : RejectFetch(f)
    \/ \E f \in inflight : FinallyFetch(f)
    \/ \E p \in {JsNull, JsUndefined} : Clear(p)
    \/ \E opt \in DropdownOptions : PickOption(opt)
    \/ \E i \in RawIds : ChangeRaw(i)
    \/ \E items \in ArrayItems : ChangeArray(items)
    \/ \E d \in DatasetProps : SetDatasetId(d)
    \/ Unmount

\* ----------------------------------------------------- ColumnSelect
\* column_name of the n-th column
ColName(n) == "column_name_0" \o ToString(n)

\* a column of a dataset; only column_name_01 is temporal
Column(n) == [column_name |-> ColName(n), is_dttm |-> (n = 1)]

\* the columns of dataset d
DatasetColumns(d) ==
    [k \in 1..MaxColumns |-> Column((d - 1) * MaxColumns + k)]

\* the values of the prop `dataset`: absent, with columns, without columns
Datasets ==
    {[id |-> d, columns |-> DatasetColumns(d)] : d \in DatasetIds}
    \cup {[id |-> 1, columns |-> <<>>]}

\* the values of the prop `value`: absent, a column name, a list of names
NoColumn == [kind |-> "none"]
SingleValue(name) == [kind |-> "single", name |-> name]
MultipleValue(names) == [kind |-> "multiple", names |-> names]

ColumnValues ==
    {NoColumn}
    \cup {SingleValue("")}
    \cup {SingleValue(ColName(n)) : n \in {1, 2, MaxColumns + 1}}
    \cup {MultipleValue(ns) :
            ns \in {<<>>, <<ColName(1), ColName(MaxColumns + 1)>>}}

\* the predicates passed as `filterValues`: "default" is the prop left out
\* (the default () => true, a new function at every render), "all" a stable
\* () => true and "dttm" column => column.is_dttm
FilterTags == {"default", "all", "dttm"}
FilterValues(tag, column) == IF tag = "dttm" THEN column.is_dttm ELSE TRUE

\* what a render receives as a new object whatever its content: the columns
\* array ("columns"), the columns array and its column objects
\* ("columnObjects"), the filterValues function, the value array or the form;
\* "filterType" is a change of
\* form.getFieldValue('filters')?.[filterId].filterType
FreshChoices ==
    {"none", "columns", "columnObjects", "filter", "value", "form",
     "filterType"}

\* name: ['filters', filterId, formField], touched: false, value: null
ResetFieldCall ==
    [name |-> <<"filters", "filterId", "column">>, touched |-> FALSE,
     value |-> NoColumn]

\* useMemo columns: dataset?.columns || []
ColumnsOf(dataset) ==
    IF dataset = Undefined THEN <<>> ELSE dataset.columns

\* options that ignore filterValues
ColumnOptions_Unfiltered(columns, tag) ==
    [i \in 1..Len(columns) |->
        [label |-> columns[i].column_name, value |-> columns[i].column_name]]

\* useMemo options: filter(filterValues), map to { label, value }
ColumnOptions(columns, tag) ==
    LET Passes(c) == FilterValues(tag, c)
        kept == SelectSeq(columns, Passes)
    IN [i \in 1..Len(kept) |->
           [label |-> kept[i].column_name, value |-> kept[i].column_name]]

\* useMemo currentColumn: columns.find(c => c.column_name === value); a list
\* value is never === a column name
CurrentColumn(columns, v) ==
    IF v.kind # "single" THEN Undefined
    ELSE IF \E i \in DOMAIN columns : columns[i].column_name = v.name
    THEN columns[CHOOSE i \in DOMAIN columns :
                    /\ columns[i].column_name = v.name
                    /\ \A j \in 1..(i - 1) : columns[j].column_name # v.name]
    ELSE Undefined

\* body of the first effect: currentColumn && !filterValues(currentColumn)
FilterResets(columns, v, tag) ==
    LET cur == CurrentColumn(columns, v)
    IN cur # Undefined /\ ~FilterValues(tag, cur)

\* Object.is on the memoised `columns` of two renders: the dependency
\* dataset?.columns is undefined without a dataset, an array otherwise
ColumnsChanged(fresh, oldDs, ds) ==
    IF oldDs = Undefined \/ ds = Undefined THEN oldDs # ds
    ELSE oldDs.columns # ds.columns \/ fresh \in {"columns", "columnObjects"}

\* Object.is on `value`: a string is compared by content, an array by identity
ValueChanged(fresh, oldV, v) ==
    oldV # v \/ (v.kind = "multiple" /\ fresh = "value")

\* Object.is on `filterValues`
FilterChanged(fresh, oldTag, tag) ==
    oldTag # tag \/ tag = "default" \/ fresh = "filter"

\* Object.is on the memoised currentColumn, a column object or undefined
CurrentColumnChanged(fresh, oldDs, oldV, ds, v) ==
    LET old == CurrentColumn(ColumnsOf(oldDs), oldV)
        new == CurrentColumn(ColumnsOf(ds), v)
    IN old # new \/ (new # Undefined /\ fresh = "columnObjects")

\* the first effect with filterValues missing from its dependency list
FilterEffectRuns_NoFilterDep(isMount, fresh, oldDs, oldV, oldTag, ds, v, tag) ==
    \/ isMount
    \/ CurrentColumnChanged(fresh, oldDs, oldV, ds, v)
    \/ fresh \in {"filterType", "form"}

\* dependency list of the first effect:
\* [currentColumn, currentFilterType, resetColumnField, filterValues]
FilterEffectRuns(isMount, fresh, oldDs, oldV, oldTag, ds, v, tag) ==
    \/ isMount
    \/ CurrentColumnChanged(fresh, oldDs, oldV, ds, v)
    \/ fresh \in {"filterType", "form"}
    \/ FilterChanged(fresh, oldTag, tag)

\* useChangeEffect(datasetId, callback): the callback is called with the
\* datasetId of the previous render when datasetId differs from it
ChangeEffectRuns(previous, d) == previous # d

\* the callback without the `previous != null` test
DatasetChangeResets_NoNullTest(previous, d) == previous # d

\* callback of useChangeEffect: previous != null && previous !== datasetId
DatasetChangeResets(previous, d) == ~Nullish(previous) /\ previous # d

\* `value &&`: undefined and the empty string are falsy, a list, even an
\* empty one, is truthy
Truthy(v) ==
    IF v.kind = "none" THEN FALSE
    ELSE IF v.kind = "single" THEN v.name # ""
    ELSE TRUE

\* Array.isArray(value) ? value : [value]
LookupValue(v) == IF v.kind = "multiple" THEN v.names ELSE <<v.name>>

\* columns.some(column => lookupValue.includes(column.column_name))
ValueExists(columns, v) ==
    \E i \in DOMAIN columns :
        \E k \in DOMAIN LookupValue(v) :
            LookupValue(v)[k] = columns[i].column_name

\* body of the validation effect
ValidationResets(columns, v) ==
    /\ Truthy(v)
    /\ Len(columns) > 0
    /\ ~ValueExists(columns, v)

\* dependency list of the validation effect: [columns, value, resetColumnField]
ValidationEffectRuns(isMount, fresh, oldDs, oldV, ds, v) ==
    \/ isMount
    \/ ColumnsChanged(fresh, oldDs, ds)
    \/ ValueChanged(fresh, oldV, v)
    \/ fresh = "form"

\* the form.setFields calls of one resetColumnField call, if it is made
Calls(b) == IF b THEN <<ResetFieldCall>> ELSE <<>>

\* the three effects of a render with props (d, ds, v, tag): which of them
\* run and which call resetColumnField; `previous`, oldDs, oldV and oldTag
\* are the props of the render before (undefined on mount) and `fresh`
\* names what was re-created
RenderOutcome(isMount, fresh, previous, oldDs, oldV, oldTag, d, ds, v, tag) ==
    LET cols == ColumnsOf(ds)
        ranFilter == FilterEffectRuns(isMount, fresh, oldDs, oldV, oldTag,
                                      ds, v, tag)
        ranValidation == ValidationEffectRuns(isMount, fresh, oldDs, oldV,
                                              ds, v)
    IN [op |-> IF isMount THEN "mount" ELSE "render",
        ranFilter |-> ranFilter,
        ranValidation |-> ranValidation,
        byFilter |-> ranFilter /\ FilterResets(cols, v, tag),
        byChange |-> ChangeEffectRuns(previous, d)
                         /\ DatasetChangeResets(previous, d),
        byValidation |-> ranValidation /\ ValidationResets(cols, v)]

\* the form.setFields calls of the effects of a render, in their order
ResetCalls(o) ==
    Calls(o.byFilter) \o Calls(o.byChange) \o Calls(o.byValidation)

\* no effect waits
NoRender == [pending |-> FALSE]
\* the effects of a committed render wait; they will compare their
\* dependencies with those of the render before, whose props are kept
RenderOf(isMount, fresh, d, ds, v, tag) ==
    [pending |-> TRUE, isMount |-> isMount, fresh |-> fresh,
     datasetId |-> d, dataset |-> ds, value |-> v, filter |-> tag]

\* ColumnSelect is not rendered
ColIdle ==
    /\ colDatasetId = NoDataset
    /\ colDataset = Undefined
    /\ colValue = NoColumn
    /\ colFilter = "all"
    /\ colSetFields = <<>>
    /\ colPending = NoRender
    /\ colLast = [op |-> "none"]

\* the values the parent passes as `datasetId` to ColumnSelect
ColDatasetProps == {NoDataset, 0} \cup DatasetIds

\* first render of ColumnSelect: the Select is given the options and the
\* value, the effects wait
ColMount ==
    /\ colDatasetId \in ColDatasetProps
    /\ colDataset \in {Undefined} \cup Datasets
    /\ colValue \in ColumnValues
    /\ colFilter \in FilterTags
    /\ colPending = RenderOf(TRUE, "none", NoDataset, Undefined, NoColumn,
                             "all")
    /\ colSetFields = <<>>
    /\ colLast = [op |-> "commit"]

\* the parent renders ColumnSelect again with props (d, ds, v, tag), React
\* having run the effects of the render before: the Select is given the new
\* options and value, the effects wait
ColRender(d, ds, v, tag, fresh) ==
    /\ ~colPending.pending
    /\ colDatasetId' = d
    /\ colDataset' = ds
    /\ colValue' = v
    /\ colFilter' = tag
    /\ colPending' = RenderOf(FALSE, fresh, colDatasetId, colDataset,
                              colValue, colFilter)
    /\ colSetFields' = <<>>
    /\ colLast' = [op |-> "commit"]
    /\ UNCHANGED <<compVars, listVars, utilVars>>

\* React runs the effects of the last render
ColEffects ==
    /\ colPending.pending
    /\ colLast' = RenderOutcome(colPending.isMount, colPending.fresh,
                                colPending.datasetId, colPending.dataset,
                                colPending.value, colPending.filter,
                                colDatasetId, colDataset, colValue, colFilter)
    /\ colSetFields' = ResetCalls(colLast')
    /\ colPending' = NoRender
    /\ UNCHANGED <<colDatasetId, colDataset, colValue, colFilter>>
    /\ UNCHANGED <<compVars, listVars, utilVars>>

\* ------------------------------------------------- loadChartOptions
\* `pageSize = 50`
DefaultPageSize == 50

\* the search texts the user types ('' is the default of `input`)
SearchTexts == {"", "Chart"}

\* loadChartOptions that forgets the dataset scope
Filters_NoScope(input, d) ==
    IF input # ""
    THEN <<[col |-> "slice_name", opr |-> "ct", value |-> input]>>
    ELSE <<>>

\* the `filters` array built by loadChartOptions
Filters(input, d) ==
    (IF input # ""
     THEN <<[col |-> "slice_name", opr |-> "ct", value |-> input]>>
     ELSE <<>>)
    \o
    (IF ~Falsy(d)
     THEN <<[col |-> "datasource_id", opr |-> "eq", value |-> d],
            [col |-> "datasource_type", opr |-> "eq", value |-> "table"]>>
     ELSE <<>>)

\* the object handed to rison.encode for the endpoint /api/v1/chart/?q=...
Query(input, page, pageSize, d) ==
    [filters |-> Filters(input, d),
     page |-> page,
     page_size |-> pageSize,
     order_column |-> "slice_name",
     order_direction |-> "asc"]

\* response.json.result.map(...) that reverses the rows
MapCharts_Reversed(result) ==
    [i \in 1..Len(result) |-> ChartOption(result[Len(result) + 1 - i])]

\* response.json.result.map(chart => ({ value, label, viz_type }))
MapCharts(result) == [i \in 1..Len(result) |-> ChartOption(result[i])]

\* the value loadChartOptions returns for the body `json`
LoadResult(json) ==
    [data |-> MapCharts(json.result), totalCount |-> json.count]

\* how the promise returned by loadChartOptions settles: there is no
\* try/catch around `await SupersetClient.get`, so a failed request rejects it
LoadChartOptionsSettles(response) ==
    IF response.ok
    THEN [state |-> "fulfilled", value |-> LoadResult(response.json)]
    ELSE [state |-> "rejected"]

\* the bodies GET /api/v1/chart/ may answer with: up to MaxResult distinct
\* rows in any order, and a count of at least that many rows
RECURSIVE SeqsUpTo(_, _)
SeqsUpTo(S, n) ==
    IF n = 0 THEN {<<>>}
    ELSE LET shorter == SeqsUpTo(S, n - 1)
         IN shorter \cup
            UNION {{Append(q, x) : x \in {y \in S : \A i \in DOMAIN q : q[i] # y}} :
                      q \in shorter}

ListBodies ==
    {[result |-> rows, count |-> Len(rows) + extra] :
        rows \in SeqsUpTo({ChartRecord(i) : i \in Ids}, MaxResult),
        extra \in 0..1}

ListResponses ==
    {[ok |-> TRUE, json |-> b] : b \in ListBodies} \cup {[ok |-> FALSE]}

\* one call loadChartOptions(input, page, pageSize) made by the select control
ListRequest(kind, input, page, pageSize) ==
    [seq |-> listSeq + 1,
     kind |-> kind,
     epoch |-> IF kind = "reset" THEN listSeq + 1 ELSE lastResetSeq,
     input |-> input,
     datasetId |-> datasetId,
     query |-> Query(input, page, pageSize, datasetId)]

\* the select control's rule for a response: it is applied only when no
\* first-page request was issued after the request it answers
ListApplies(r, lastReset) == r.epoch = lastReset

\* the page the select control shows for a settled loadChartOptions promise
SurfacedPage(outcome) ==
    IF outcome.state = "fulfilled" THEN outcome.value.data ELSE <<>>

\* the option list after the select control handled a settled request
VisibleAfter(r, outcome) ==
    IF ~ListApplies(r, lastResetSeq) THEN visibleOptions
    ELSE IF r.kind = "reset" THEN SurfacedPage(outcome)
    ELSE visibleOptions \o SurfacedPage(outcome)

ListIdle ==
    /\ searchText = ""
    /\ listPage = 0
    /\ listSeq = 0
    /\ lastResetSeq = 0
    /\ listPending = {}
    /\ visibleOptions = <<>>
    /\ listLast = [op |-> "none"]

IssueList(r) ==
    /\ listSeq < MaxListRequests
    /\ listSeq' = listSeq + 1
    /\ listPending' = listPending \cup {r}
    /\ listLast' = [op |-> "issue", req |-> r]

\* the dropdown is opened or the (debounced) search text changes: page 0
Search(text) ==
    /\ mounted
    /\ IssueList(ListRequest("reset", text, 0, DefaultPageSize))
    /\ searchText' = text
    /\ listPage' = 0
    /\ lastResetSeq' = listSeq + 1
    /\ UNCHANGED <<visibleOptions, compVars, colVars, utilVars>>

\* the user scrolls near the end of the list: next page, same search text
LoadNextPage ==
    /\ mounted
    /\ listPage < MaxPage
    /\ lastResetSeq > 0
    /\ IssueList(ListRequest("page", searchText, listPage + 1, DefaultPageSize))
    /\ listPage' = listPage + 1
    /\ UNCHANGED <<searchText, lastResetSeq, visibleOptions, compVars,
                   colVars, utilVars>>

\* datasetId changes: loadChartOptions is re-created and the first page is
\* requested afresh
ListSetDatasetId(d) ==
    /\ mounted
    /\ d # datasetId
    /\ listSeq < MaxListRequests
    /\ datasetId' = d
    /\ listSeq' = listSeq + 1
    /\ lastResetSeq' = listSeq + 1
    /\ listPage' = 0
    /\ LET r == [seq |-> listSeq + 1, kind |-> "reset", epoch |-> listSeq + 1,
                 input |-> searchText, datasetId |-> d,
                 query |-> Query(searchText, 0, DefaultPageSize, d)]
       IN /\ listPending' = listPending \cup {r}
          /\ listLast' = [op |-> "issue", req |-> r]
    /\ UNCHANGED <<searchText, visibleOptions, mounted, value, clearable,
                   selectedChart, isLoadingSelected, pendingEffect,
                   inflight, requests, onChangeCalls, lastOp, colVars,
                   utilVars>>

\* the HTTP request of r completes with `response`; loadChartOptions settles
\* and the select control handles the outcome
ListSettle(r, response) ==
    /\ r \in listPending
    /\ listPending' = listPending \ {r}
    /\ LET outcome == LoadChartOptionsSettles(response)
       IN /\ visibleOptions' = VisibleAfter(r, outcome)
          /\ listLast' = [op |-> "settle", req |-> r, response |-> response,
                          outcome |-> outcome,
                          stale |-> r.epoch # lastResetSeq,
                          before |-> visibleOptions]
    /\ UNCHANGED <<searchText, listPage, listSeq, lastResetSeq, compVars,
                   colVars, utilVars>>

\* the component is mounted without a value; only the dropdown is exercised
ListInit ==
    /\ CompIdle
    /\ datasetId \in DatasetProps
    /\ ListIdle
    /\ ColIdle
    /\ UtilIdle

ListNext ==
    \/ \E text \in SearchTexts : Search(text)
    \/ LoadNextPage
    \/ \E d \in DatasetProps : ListSetDatasetId(d)
    \/ \E r \in listPending : \E response \in ListResponses :
           ListSettle(r, response)

\* the option list of the dropdown fed by loadChartOptions
ListSpec == ListInit /\ [][ListNext]_vars

ColInit ==
    /\ CompIdle
    /\ datasetId = NoDataset
    /\ ListIdle
    /\ ColMount
    /\ UtilIdle

ColNext ==
    \/ /\ ~colPending.pending
       /\ \E d \in ColDatasetProps : \E ds \in {Undefined} \cup Datasets :
              \E v \in ColumnValues : \E tag \in FilterTags :
                  \E fresh \in FreshChoices : ColRender(d, ds, v, tag, fresh)
    \/ ColEffects

\* the column selector of the native-filter form
ColSpec == ColInit /\ [][ColNext]_vars

\* ------------------------------------------------------- getDatasetId
\* a JavaScript number: Num(n) is the integer n, Sci(m, e) is m * 10^e (m
\* not a multiple of 10) when that is no integer below 10^IntegerDigits,
\* Infinite(1) and Infinite(-1) are Infinity and -Infinity; -0 is Num(0)
Num(n) == [nan |-> FALSE, num |-> n]
NaN == [nan |-> TRUE, num |-> 0]
Sci(m, e) == [nan |-> FALSE, m |-> m, e |-> e]
Infinite(sign) == [nan |-> FALSE, inf |-> sign]

\* the decimal literals converted have at most IntegerDigits digits in the
\* mantissa and at most two in the exponent, the radix literals a value
\* below 2^31, so that no value is rounded, overflows to Infinity or
\* underflows to 0
IntegerDigits == 7

Digits == "0123456789"
IsDigit(c) == \E d \in 0..9 : SubSeq(Digits, d + 1, d + 1) = c
DigitValue(c) == CHOOSE d \in 0..9 : SubSeq(Digits, d + 1, d + 1) = c

\* the value of a string of decimal digits
RECURSIVE DecimalValue(_)
DecimalValue(s) ==
    IF Len(s) = 0 THEN 0
    ELSE 10 * DecimalValue(SubSeq(s, 1, Len(s) - 1))
             + DigitValue(SubSeq(s, Len(s), Len(s)))

\* TRUE when s consists of decimal digits only (the empty string included)
AllDigits(s) == \A i \in 1..Len(s) : IsDigit(SubSeq(s, i, i))

\* the digits of the radix literals, in lower and in upper case
LowerDigits == "0123456789abcdef"
UpperDigits == "0123456789ABCDEF"
IsRadixDigit(c, base) ==
    \E d \in 0..(base - 1) :
        c \in {SubSeq(LowerDigits, d + 1, d + 1),
               SubSeq(UpperDigits, d + 1, d + 1)}
RadixDigitValue(c, base) ==
    CHOOSE d \in 0..(base - 1) :
        c \in {SubSeq(LowerDigits, d + 1, d + 1),
               SubSeq(UpperDigits, d + 1, d + 1)}

\* the value of a string of digits of the base
RECURSIVE RadixValue(_, _)
RadixValue(s, base) ==
    IF Len(s) = 0 THEN 0
    ELSE base * RadixValue(SubSeq(s, 1, Len(s) - 1), base)
             + RadixDigitValue(SubSeq(s, Len(s), Len(s)), base)

\* the base announced by the prefix 0x, 0o or 0b (either case), 0 if none
RadixOf(s) ==
    IF Len(s) < 2 \/ SubSeq(s, 1, 1) # "0" THEN 0
    ELSE IF SubSeq(s, 2, 2) \in {"x", "X"} THEN 16
    ELSE IF SubSeq(s, 2, 2) \in {"o", "O"} THEN 8
    ELSE IF SubSeq(s, 2, 2) \in {"b", "B"} THEN 2
    ELSE 0

RECURSIVE Pow10(_)
Pow10(k) == IF k = 0 THEN 1 ELSE 10 * Pow10(k - 1)

\* the number of decimal digits of m > 0
RECURSIVE NumDigits(_)
NumDigits(m) == IF m < 10 THEN 1 ELSE 1 + NumDigits(m \div 10)

\* sign * m * 10^e as a JavaScript number (m >= 0)
RECURSIVE Scientific(_, _, _)
Scientific(sign, m, e) ==
    IF m = 0 THEN Num(0)
    ELSE IF m % 10 = 0 THEN Scientific(sign, m \div 10, e + 1)
    ELSE IF e >= 0 /\ NumDigits(m) + e <= IntegerDigits
    THEN Num(sign * m * Pow10(e))
    ELSE Sci(sign * m, e)

\* the integer n as a JavaScript number: one value per number, whatever the
\* notation it was written in
IntegerNumber(n) == IF n < 0 THEN Scientific(0 - 1, 0 - n, 0)
                    ELSE Scientific(1, n, 0)

\* NonDecimalIntegerLiteral: a prefix and at least one digit of its base
RadixLiteral(s) ==
    LET base == RadixOf(s)
        digits == SubSeq(s, 3, Len(s))
    IN IF \/ Len(digits) = 0
          \/ \E i \in 1..Len(digits) : ~IsRadixDigit(SubSeq(digits, i, i), base)
       THEN NaN
       ELSE IntegerNumber(RadixValue(digits, base))

\* the first position of s that holds one of the characters, 0 if none
FirstOf(s, chars) ==
    LET hits == {i \in 1..Len(s) : SubSeq(s, i, i) \in chars}
    IN IF hits = {} THEN 0 ELSE CHOOSE i \in hits : \A j \in hits : i <= j

\* StrUnsignedDecimalLiteral: Infinity, or digits with an optional fraction
\* and an optional exponent part, at least one digit in the mantissa
DecimalLiteral(sign, body) ==
    IF body = "Infinity" THEN Infinite(sign)
    ELSE
        LET ePos == FirstOf(body, {"e", "E"})
            mant == IF ePos = 0 THEN body ELSE SubSeq(body, 1, ePos - 1)
            expText == IF ePos = 0 THEN "" ELSE SubSeq(body, ePos + 1, Len(body))
            expSigned == Len(expText) > 0 /\ SubSeq(expText, 1, 1) \in {"-", "+"}
            expDigits == IF expSigned THEN SubSeq(expText, 2, Len(expText))
                         ELSE expText
            dot == FirstOf(mant, {"."})
            intPart == IF dot = 0 THEN mant ELSE SubSeq(mant, 1, dot - 1)
            fracPart == IF dot = 0 THEN "" ELSE SubSeq(mant, dot + 1, Len(mant))
            exponent ==
                IF ePos = 0 THEN 0
                ELSE IF SubSeq(expText, 1, 1) = "-"
                THEN 0 - DecimalValue(expDigits)
                ELSE DecimalValue(expDigits)
        IN IF \/ ~AllDigits(intPart)
              \/ ~AllDigits(fracPart)
              \/ Len(intPart) + Len(fracPart) = 0
              \/ ePos # 0 /\ (Len(expDigits) = 0 \/ ~AllDigits(expDigits))
           THEN NaN
           ELSE Scientific(sign, DecimalValue(intPart \o fracPart),
                           exponent - Len(fracPart))

\* s without the spaces at its ends
RECURSIVE Trim(_)
Trim(s) ==
    IF Len(s) = 0 THEN s
    ELSE IF SubSeq(s, 1, 1) = " " THEN Trim(SubSeq(s, 2, Len(s)))
    ELSE IF SubSeq(s, Len(s), Len(s)) = " "
    THEN Trim(SubSeq(s, 1, Len(s) - 1))
    ELSE s

\* Number(s) for a string s of printable ASCII characters (StringToNumber of
\* ECMAScript): spaces at the ends are dropped; the empty string is 0; a
\* literal with a radix prefix is its value and takes no sign; an optionally
\* signed decimal literal (Infinity, fraction and exponent included) is its
\* value; anything else, a numeric separator or a BigInt suffix included,
\* is NaN
StringToNumber(s) ==
    LET t == Trim(s)
    IN IF Len(t) = 0 THEN Num(0)
       ELSE IF RadixOf(t) # 0 THEN RadixLiteral(t)
       ELSE IF SubSeq(t, 1, 1) = "-" THEN DecimalLiteral(0 - 1, SubSeq(t, 2, Len(t)))
       ELSE IF SubSeq(t, 1, 1) = "+" THEN DecimalLiteral(1, SubSeq(t, 2, Len(t)))
       ELSE DecimalLiteral(1, t)

\* the positions at which sep occurs in s
Occurrences(s, sep) ==
    {i \in 1..(Len(s) - Len(sep) + 1) : SubSeq(s, i, i + Len(sep) - 1) = sep}

\* the text before the last occurrence of the separator
SplitFirst_AtLast(s, sep) ==
    LET hits == Occurrences(s, sep)
    IN IF hits = {} THEN s
       ELSE SubSeq(s, 1, (CHOOSE i \in hits : \A j \in hits : j <= i) - 1)

\* s.split(sep)[0]: the text before the first occurrence of the separator,
\* the whole text when there is none
SplitFirst(s, sep) ==
    LET hits == Occurrences(s, sep)
    IN IF hits = {} THEN s
       ELSE SubSeq(s, 1, (CHOOSE i \in hits : \A j \in hits : i <= j) - 1)

\* getDatasetId(datasetId), with arg for its parameter datasetId
GetDatasetId(arg) ==
    IF arg.kind = "string"
    THEN StringToNumber(SplitFirst(arg.s, "__"))
    ELSE IntegerNumber(arg.n)

\* the datasource types that follow the separator
DatasourceTypes == {"table", "query", "saved__query", "_table"}

\* decimal text of n, optionally with a leading zero
DecimalTexts(n) ==
    {ToString(n)} \cup (IF n >= 0 THEN {"0" \o ToString(n)} ELSE {})

\* the inputs getDatasetId is applied to: datasource strings '<n>__<type>',
\* numbers, and strings of another form
DatasourceCases ==
    UNION {{[form |-> "datasource", text |-> t \o "__" \o type, n |-> n]
               : t \in DecimalTexts(n), type \in DatasourceTypes}
              : n \in -1..MaxDatasourceId}
NumberCases ==
    {[form |-> "number", text |-> "", n |-> n] : n \in -1..MaxDatasourceId}
OtherCases ==
    {[form |-> "other", text |-> t, n |-> 0]
        : t \in {"", "__table", "abc__table", "1a__table", "-__table",
                 "12", "table", "1e3__table", "1E2__table", "0x10__table",
                 "0b11__table", "0o17__table", "Infinity__table",
                 "-Infinity__table", "1.5__table", "1e-3__table",
                 "-0x10__table", "1_0__table", " 7 __table", "+5__table",
                 ".5e1__table", "1e12__table", "1n__table",
                 "0x989680__table", "1e7__table", "0xffffff__table",
                 "16777215__table"}}
IdCases == DatasourceCases \cup NumberCases \cup OtherCases

ArgOf(c) == IF c.form = "number" THEN NumberArg(c.n) ELSE StringArg(c.text)

\* a caller evaluates getDatasetId(idArg)
CallGetDatasetId ==
    /\ idLast.op = "none"
    /\ idLast' = [op |-> "getDatasetId", arg |-> idArg,
                  result |-> GetDatasetId(idArg)]
    /\ UNCHANGED <<idCase, idArg, compVars, listVars, colVars>>

IdInit ==
    /\ CompIdle
    /\ datasetId = NoDataset
    /\ ListIdle
    /\ ColIdle
    /\ idCase \in IdCases
    /\ idArg = ArgOf(idCase)
    /\ idLast = [op |-> "none"]

IdNext == CallGetDatasetId

\* getDatasetId applied to one argument
IdSpec == IdInit /\ [][IdNext]_vars

\* ChartSelect with all its props, its change events included
EventInit == CompInit /\ ListIdle /\ ColIdle /\ UtilIdle

EventSpec == EventInit /\ [][EventNext]_vars

\* ChartSelect mounted with any `value`, the other props left alone
Init ==
    /\ CompInit /\ datasetId = NoDataset /\ clearable = TRUE
    /\ ListIdle
    /\ ColIdle
    /\ UtilIdle

Next == CompNext

Spec == Init /\ [][Next]_vars

\* ------------------------------------------------------------ properties
\* TRUE when the string sub occurs in the string s
Contains(s, sub) ==
    \E i \in 1..(Len(s) - Len(sub) + 1) : SubSeq(s, i, i + Len(sub) - 1) = sub

\* a promise handler of a by-identifier request ran
IsCompletion == lastOp.op \in {"ResolveFetch", "RejectFetch", "FinallyFetch"}

\* the effect of the last change of the external value ran in the last step
EffectRan == lastOp.op = "RunEffect"

\* the component state a handler may write
LocalState == <<selectedChart, isLoadingSelected, inflight, Len(requests)>>
PreLocalState ==
    <<lastOp.pre.selectedChart, lastOp.pre.isLoadingSelected,
      lastOp.pre.inflight, lastOp.pre.nreq>>

\* C1 (as claimed): a handler of a by-identifier request issued for an
\* identifier other than the current external value is discarded: the
\* selection shown is the one shown before the handler ran.
C1_StaleCompletionDiscarded ==
    (IsCompletion /\ lastOp.arg.id # value)
        => selectedValue = lastOp.pre.selectedValue

\* C2 (as claimed): whenever the external value is present, the option handed
\* to the select control carries the external identifier.
C2_ValueIsExternalIdentifier ==
    ~Falsy(value) => selectedValue.value = value

\* C3 (as claimed): while the request issued for the current external value v
\* has not completed the label shown is the Loading placeholder, and when the
\* handlers of a successful request for v have run the label is
\* "<slice_name> (<viz_type>)" of the fetched chart.
C3_LoadingWhileResolving ==
    /\ (/\ ~Falsy(value)
        /\ \E f \in inflight : f.id = value /\ f.stage = "pending")
           => selectedValue.label = LoadingLabel
    /\ (/\ mounted
        /\ lastOp.op = "FinallyFetch"
        /\ lastOp.arg.stage = "resolved"
        /\ lastOp.arg.id = value)
           => selectedValue.label = ChartLabel(lastOp.arg.result)

\* the selectedChart of the render that created the effect just run has
\* the identifier that render saw as the external value
AlreadyLoaded ==
    /\ lastOp.effect.selectedChart # Undefined
    /\ lastOp.effect.selectedChart.value = lastOp.effect.value

\* C4: when the effect of a change of the external value to v runs and the
\* selectedChart of the render that saw the change has identifier v, no
\* request is started and neither selectedChart nor isLoadingSelected is
\* written; the render itself writes no state either.
C4_IdempotentNoOp ==
    /\ (EffectRan /\ AlreadyLoaded)
           => /\ Len(requests) = lastOp.pre.nreq
              /\ value = lastOp.effect.value
              /\ LocalState = PreLocalState
    /\ lastOp.op = "SetValue" => LocalState = PreLocalState

C4_Witness ==
    /\ lastOp.op = "RunEffect"
    /\ lastOp.effect.selectedChart # Undefined
    /\ lastOp.effect.selectedChart.value = lastOp.effect.value
    /\ lastOp.pre.nreq > 0

\* C5 (as claimed): the failure of the request for the current external
\* value v leaves a selection with value v and a label, not the placeholder,
\* containing the decimal form of v, and calls no onChange; once that
\* fallback is the selection shown for v, the selection shown keeps
\* identifier v whatever handler of a request runs.
C5_FallbackKeepsIdentifier ==
    /\ (mounted /\ lastOp.op = "RejectFetch" /\ lastOp.arg.id = value)
           => /\ selectedChart # Undefined
              /\ selectedChart.value = value
              /\ selectedChart.label # LoadingLabel
              /\ Contains(selectedChart.label, ToString(value))
              /\ Len(onChangeCalls) = lastOp.pre.ncalls
    /\ (/\ mounted
        /\ IsCompletion
        /\ ~Falsy(value)
        /\ lastOp.pre.selectedValue = FallbackOption(value))
           => /\ selectedValue # Undefined
              /\ selectedValue.value = value
              /\ selectedValue.label # LoadingLabel

\* C6 (as claimed): once every handler of every issued request has run and
\* the external value is v, the control shows a non-placeholder label for v.
\* With no request in flight only a change of the external value can change
\* what is shown, so this is the state the control stays in while the value
\* stays v.
C6_SettlesOnExternalValue ==
    (mounted /\ inflight = {} /\ pendingEffect = NoEffect /\ ~Falsy(value))
        => /\ selectedValue.label # LoadingLabel
           /\ selectedValue.value = value

\* C7: while the external value is null (or undefined, or 0) the selection
\* handed to the select control is undefined, whatever handler runs
\* meanwhile; the change to such a value starts no request and its effect
\* clears selectedChart.
C7_NullValueIsEmpty ==
    /\ Falsy(value) => selectedValue = Undefined
    /\ (lastOp.op = "SetValue" /\ Falsy(lastOp.arg))
           => /\ Len(requests) = lastOp.pre.nreq
              /\ inflight = lastOp.pre.inflight
    /\ (EffectRan /\ Falsy(lastOp.effect.value))
           => /\ selectedChart = Undefined
              /\ Len(requests) = lastOp.pre.nreq
              /\ inflight = lastOp.pre.inflight

C7_Witness ==
    /\ value = NoValue
    /\ lastOp.op = "ResolveFetch"
    /\ selectedChart # Undefined

\* the effect just run showed the Loading placeholder for its value and
\* started exactly one request, addressed to that value
StartedOneFetch ==
    /\ selectedValue = LoadingOption(lastOp.effect.value)
    /\ Len(requests) = lastOp.pre.nreq + 1
    /\ requests[Len(requests)] = lastOp.effect.value
    /\ inflight = lastOp.pre.inflight
                      \cup {Pending(Len(requests), lastOp.effect.value)}

\* C8 (as claimed): when the effect of a change of the external value to a
\* v that is neither null nor undefined runs and the selectedChart of the
\* render that saw the change does not have identifier v, the Loading
\* placeholder for v is shown and exactly one request, addressed to v, is
\* started.
C8_NonNullChangeStartsOneFetch ==
    (EffectRan /\ ~Nullish(lastOp.effect.value) /\ ~AlreadyLoaded)
        => StartedOneFetch

\* C8 (amended): the same for every v that is neither null, undefined nor 0.
C8_ChangeStartsOneFetch ==
    (EffectRan /\ ~Falsy(lastOp.effect.value) /\ ~AlreadyLoaded)
        => StartedOneFetch

C8_Witness ==
    /\ lastOp.op = "RunEffect"
    /\ ~Falsy(lastOp.effect.value)
    /\ lastOp.effect.selectedChart # Undefined
    /\ lastOp.effect.selectedChart.value # lastOp.effect.value
    /\ Len(requests) = lastOp.pre.nreq + 1

\* TRUE when the last handler called onChange exactly once, with argument a
CalledOnceWith(a) ==
    /\ Len(onChangeCalls) = lastOp.pre.ncalls + 1
    /\ onChangeCalls[Len(onChangeCalls)] = a

\* C9 (as claimed): the clear action calls onChange(null) exactly once and
\* the selection becomes empty.
C9_ClearEmptiesSelection ==
    lastOp.op = "Clear"
        => /\ CalledOnceWith(NoValue)
           /\ selectedValue = Undefined

\* C9 (amended): the clear action calls onChange(null) exactly once and
\* leaves the external value, selectedChart, isLoadingSelected and the
\* selection shown as they were.
C9_ClearCallsOnChangeOnly ==
    lastOp.op = "Clear"
        => /\ CalledOnceWith(NoValue)
           /\ LocalState = PreLocalState
           /\ value = lastOp.pre.value
           /\ selectedValue = lastOp.pre.selectedValue
           /\ selectedValue # Undefined

C9_Witness ==
    /\ lastOp.op = "Clear"
    /\ clearable
    /\ selectedValue = selectedChart
    /\ selectedValue.value = value

\* C10 (as claimed): picking an option makes the picked option, with its
\* label, the selection and calls onChange with option.value only.
C10_PickResolvesOption ==
    lastOp.op = "PickOption"
        => /\ CalledOnceWith(lastOp.arg.value)
           /\ selectedValue # Undefined
           /\ selectedValue.value = lastOp.arg.value
           /\ selectedValue.label = lastOp.arg.label

\* C10 (amended): picking an option calls onChange exactly once, with
\* option.value, and leaves the external value, selectedChart,
\* isLoadingSelected and the selection shown as they were.
C10_PickCallsOnChangeOnly ==
    lastOp.op = "PickOption"
        => /\ CalledOnceWith(lastOp.arg.value)
           /\ LocalState = PreLocalState
           /\ value = lastOp.pre.value
           /\ selectedValue = lastOp.pre.selectedValue

C10_Witness ==
    /\ lastOp.op = "PickOption"
    /\ lastOp.arg.value # value
    /\ onChangeCalls[Len(onChangeCalls)] = lastOp.arg.value

\* the change events the select control delivers to handleChange
IsChangeEvent ==
    lastOp.op \in {"Clear", "PickOption", "ChangeRaw", "ChangeArray"}

\* C21: each change event calls onChange exactly once, with null for a
\* null/undefined payload, payload.value for an object payload that has a
\* 'value' property and the payload itself otherwise; a change of the
\* external value or of datasetId, the effect, and the handlers of a
\* request call onChange not at all.
C21_OnChangeOncePerChangeEvent ==
    /\ IsChangeEvent =>
           /\ Len(onChangeCalls) = lastOp.pre.ncalls + 1
           /\ lastOp.arg.kind \in {"null", "undefined"}
                  => onChangeCalls[Len(onChangeCalls)] = NoValue
           /\ (lastOp.arg.kind = "object" /\ "value" \in DOMAIN lastOp.arg)
                  => onChangeCalls[Len(onChangeCalls)] = lastOp.arg.value
           /\ lastOp.arg.kind = "number"
                  => onChangeCalls[Len(onChangeCalls)] = lastOp.arg.n
           /\ (lastOp.arg.kind = "object" /\ "value" \notin DOMAIN lastOp.arg)
                  => onChangeCalls[Len(onChangeCalls)] = lastOp.arg.items
    /\ lastOp.op \in {"SetValue", "RunEffect", "SetDatasetId", "ResolveFetch",
                      "RejectFetch", "FinallyFetch"}
           => Len(onChangeCalls) = lastOp.pre.ncalls

\* the control reported an array of two identifiers while the fetch for the
\* current value was in flight, and the consumer received that array
C21_Witness ==
    /\ lastOp.op = "ChangeArray"
    /\ Len(lastOp.arg.items) = 2
    /\ onChangeCalls[Len(onChangeCalls)] = lastOp.arg.items
    /\ \E f \in inflight : f.id = value

\* C16: a change of datasetId, to or from the absent value included, leaves
\* the external value, selectedChart, isLoadingSelected and the selection
\* shown as they were, starts no by-identifier request and calls no onChange.
C16_ScopeChangeKeepsSelection ==
    lastOp.op = "SetDatasetId"
        => /\ datasetId = lastOp.arg
           /\ LocalState = PreLocalState
           /\ value = lastOp.pre.value
           /\ selectedValue = lastOp.pre.selectedValue
           /\ Len(onChangeCalls) = lastOp.pre.ncalls

C16_Witness ==
    /\ lastOp.op = "SetDatasetId"
    /\ ~Falsy(value)
    /\ selectedValue = selectedChart
    /\ selectedChart.value = value
    /\ ~Falsy(datasetId)
    /\ ChartDatasource(value) # datasetId

\* TRUE when the filter sequence fs holds a predicate (col opr v)
HasFilter(fs, col, opr, v) ==
    \E i \in DOMAIN fs : fs[i].col = col /\ fs[i].opr = opr /\ fs[i].value = v

\* C11: every list request issued with a dataset identifier d as datasetId
\* carries the predicate (datasource_id eq d); it carries (slice_name ct s)
\* exactly when the search text s is non-empty; issued without datasetId (or
\* with 0, which is no key of the dataset table) it carries no predicate on
\* datasource_id or datasource_type.
C11_ScopedQueryComposition ==
    listLast.op = "issue"
        => LET r == listLast.req
               fs == r.query.filters
           IN /\ r.datasetId \in DatasetIds
                    => HasFilter(fs, "datasource_id", "eq", r.datasetId)
              /\ r.input # "" => HasFilter(fs, "slice_name", "ct", r.input)
              /\ r.input = "" => \A i \in DOMAIN fs : fs[i].col # "slice_name"
              /\ Falsy(r.datasetId)
                    => \A i \in DOMAIN fs :
                           fs[i].col \notin {"datasource_id", "datasource_type"}

C11_Witness ==
    /\ listLast.op = "issue"
    /\ listLast.req.datasetId \in DatasetIds
    /\ listLast.req.input # ""
    /\ Len(listLast.req.query.filters) = 3

\* C12: for a list response {count, result} loadChartOptions returns one
\* option per row, in the order of the rows, with value = id and
\* label = "<slice_name> (<viz_type>)", and totalCount = count.
C12_OptionsMirrorResponse ==
    (listLast.op = "settle" /\ listLast.response.ok)
        => LET rows == listLast.response.json.result
               out == listLast.outcome
           IN /\ out.state = "fulfilled"
              /\ Len(out.value.data) = Len(rows)
              /\ \A i \in 1..Len(rows) :
                     /\ out.value.data[i].value = rows[i].id
                     /\ out.value.data[i].label =
                            rows[i].slice_name \o " (" \o rows[i].viz_type \o ")"
              /\ out.value.totalCount = listLast.response.json.count

C12_Witness ==
    /\ listLast.op = "settle"
    /\ listLast.response.ok
    /\ Len(listLast.response.json.result) = 2
    /\ listLast.response.json.result[1].id # listLast.response.json.result[2].id
    /\ Len(listLast.outcome.value.data) = 2

\* C14 (as claimed): when the list request fails, loadChartOptions does not
\* reject towards its caller but settles with an empty result page.
C14_QueryFailureHandledLocally ==
    (listLast.op = "settle" /\ ~listLast.response.ok)
        => /\ listLast.outcome.state = "fulfilled"
           /\ listLast.outcome.value.data = <<>>

\* the props of the last render of ColumnSelect, read for the claims
colColumns == ColumnsOf(colDataset)
\* a render is committed: the Select has its options and its value
colShown == colLast.op \in {"commit", "mount", "render"}
\* the effects of the last render have run
colRendered == colLast.op \in {"mount", "render"}

\* TRUE when name is the column_name of a column of the dataset
IsColumnName(name) ==
    \E i \in DOMAIN colColumns : colColumns[i].column_name = name

\* TRUE when the single selected column is in the dataset and passes / fails
\* filterValues
SelectedPasses ==
    /\ colValue.kind = "single"
    /\ \E i \in DOMAIN colColumns :
           /\ colColumns[i].column_name = colValue.name
           /\ FilterValues(colFilter, colColumns[i])
SelectedFails ==
    /\ colValue.kind = "single"
    /\ \E i \in DOMAIN colColumns :
           /\ colColumns[i].column_name = colValue.name
           /\ ~FilterValues(colFilter, colColumns[i])

\* TRUE when the last render called setFields with the reset of the field
FieldWasReset ==
    \E k \in DOMAIN colSetFields :
        /\ colSetFields[k].name = <<"filters", "filterId", "column">>
        /\ colSetFields[k].touched = FALSE
        /\ colSetFields[k].value = NoColumn

\* C17: when the effects of a render run whose datasetId differs from a
\* non-null datasetId of the render before, the column field is reset; the
\* effects of the first render make no setFields call when the value is a
\* column of the dataset that passes filterValues.
C17_DatasetChangeResetsField ==
    [][colPending.pending =>
          /\ (/\ ~colPending.isMount
              /\ ~Nullish(colPending.datasetId)
              /\ colDatasetId # colPending.datasetId)
                 => colLast'.byChange /\ FieldWasReset'
          /\ (colPending.isMount /\ SelectedPasses) => colSetFields' = <<>>
      ]_vars

\* the effects of a re-render with another datasetId reset the field
C17_Witness ==
    /\ colLast.op = "render"
    /\ colLast.byChange
    /\ ~Nullish(colDatasetId)
    /\ colSetFields # <<>>

\* C18: the options are the names of the dataset's columns that pass
\* filterValues, each once, as {label: name, value: name}, in the order of
\* the dataset; without a dataset or without columns there is no option.
C18_OptionsAreFilteredColumns ==
    colShown =>
        LET opts == ColumnOptions(colColumns, colFilter)
            Pos(name) == CHOOSE i \in DOMAIN colColumns :
                             colColumns[i].column_name = name
        IN /\ \A k \in DOMAIN opts :
                  /\ opts[k].label = opts[k].value
                  /\ \E i \in DOMAIN colColumns :
                         /\ colColumns[i].column_name = opts[k].value
                         /\ FilterValues(colFilter, colColumns[i])
           /\ \A i \in DOMAIN colColumns :
                  FilterValues(colFilter, colColumns[i])
                      => \E k \in DOMAIN opts :
                             opts[k].value = colColumns[i].column_name
           /\ \A k1, k2 \in DOMAIN opts :
                  k1 < k2 => Pos(opts[k1].value) < Pos(opts[k2].value)
           /\ (colDataset = Undefined \/ Len(colColumns) = 0) => opts = <<>>

C18_Witness ==
    /\ colShown
    /\ colFilter = "dttm"
    /\ Len(colColumns) = MaxColumns
    /\ Len(ColumnOptions(colColumns, colFilter)) = 1

\* C19 (as claimed): when the validation effect runs with a dataset that has
\* columns and a non-empty value of which some selected name is not a column
\* name of the dataset, the field is reset; with no columns the validation
\* makes no reset.
C19_ValidationResetsMissingName ==
    colRendered =>
        /\ (/\ colLast.ranValidation
            /\ Len(colColumns) > 0
            /\ \/ /\ colValue.kind = "single"
                  /\ colValue.name # ""
                  /\ ~IsColumnName(colValue.name)
               \/ /\ colValue.kind = "multiple"
                  /\ \E k \in DOMAIN colValue.names :
                         ~IsColumnName(colValue.names[k]))
               => colLast.byValidation
        /\ Len(colColumns) = 0 => ~colLast.byValidation

\* C20: when the effects of a render run after which the single selected
\* column is in the dataset and fails filterValues, the field is reset if
\* it is the first render, if the selection was not failing at the render
\* before, if filterValues, the filter type, the form or the column objects
\* are new, or if the effect ran for another reason; a reset by this effect
\* is made only for a selected column that fails filterValues.
C20_FilteredOutColumnResets ==
    [][colPending.pending =>
          LET wasInvalid ==
                  /\ ~colPending.isMount
                  /\ FilterResets(ColumnsOf(colPending.dataset),
                                  colPending.value, colPending.filter)
          IN /\ (/\ SelectedFails
                 /\ \/ colPending.isMount
                    \/ ~wasInvalid
                    \/ colPending.fresh \in {"filter", "filterType", "form",
                                             "columnObjects"}
                    \/ colLast'.ranFilter)
                    => colLast'.byFilter /\ FieldWasReset'
             /\ colLast'.byFilter => SelectedFails /\ ~SelectedPasses
      ]_vars

\* the effects of a re-render reset the field for a selected column that
\* fails filterValues, and for no other reason
C20_Witness ==
    /\ colLast.op = "render"
    /\ SelectedFails
    /\ colLast.byFilter
    /\ ~colLast.byChange
    /\ ~colLast.byValidation
    /\ Len(colSetFields) = 1

\* C22: getDatasetId applied to a datasource string '<n>__<type>' returns the
\* number n written before the first '__', and applied to a number returns
\* that number.
C22_GetDatasetIdIsNumericId ==
    idLast.op = "getDatasetId"
        => /\ idCase.form = "datasource" => idLast.result = Num(idCase.n)
           /\ idCase.form = "number" => idLast.result = Num(idArg.n)

\* Number(...) of literals in each notation and of near misses
NumberLiteralExamples ==
    /\ StringToNumber("0x989680") = StringToNumber("1e7")
    /\ StringToNumber("0o46113200") = Sci(1, 7)
    /\ StringToNumber("0xffffff") = StringToNumber("16777215")
    /\ StringToNumber("0xffffff") = Sci(16777215, 0)
    /\ StringToNumber("0X7A120") = StringToNumber("5e5")
    /\ GetDatasetId(NumberArg(10000000)) = StringToNumber("10000000")
    /\ StringToNumber("1e3") = Num(1000)
    /\ StringToNumber("1E2") = Num(100)
    /\ StringToNumber("0x10") = Num(16)
    /\ StringToNumber("0X1f") = Num(31)
    /\ StringToNumber("0b11") = Num(3)
    /\ StringToNumber("0o17") = Num(15)
    /\ StringToNumber("Infinity") = Infinite(1)
    /\ StringToNumber("+Infinity") = Infinite(1)
    /\ StringToNumber("-Infinity") = Infinite(0 - 1)
    /\ StringToNumber("infinity") = NaN
    /\ StringToNumber("-0") = Num(0)
    /\ StringToNumber("1.5") = Sci(15, 0 - 1)
    /\ StringToNumber("-1.50") = Sci(0 - 15, 0 - 1)
    /\ StringToNumber("1e-3") = Sci(1, 0 - 3)
    /\ StringToNumber("1e12") = Sci(1, 12)
    /\ StringToNumber("12e5") = Num(1200000)
    /\ StringToNumber("12e6") = Sci(12, 6)
    /\ StringToNumber(".5e1") = Num(5)
    /\ StringToNumber("5.") = Num(5)
    /\ StringToNumber(".") = NaN
    /\ StringToNumber("1e") = NaN
    /\ StringToNumber("e1") = NaN
    /\ StringToNumber("1e+") = NaN
    /\ StringToNumber("1e5e5") = NaN
    /\ StringToNumber("1.2.3") = NaN
    /\ StringToNumber("-0x10") = NaN
    /\ StringToNumber("0x") = NaN
    /\ StringToNumber("0xg") = NaN
    /\ StringToNumber("0b12") = NaN
    /\ StringToNumber("0o8") = NaN
    /\ StringToNumber("0x1e3") = Num(483)
    /\ StringToNumber("010") = Num(10)
    /\ StringToNumber("1_0") = NaN
    /\ StringToNumber("1n") = NaN
    /\ StringToNumber(" 7 ") = Num(7)
    /\ StringToNumber(" ") = Num(0)
    /\ StringToNumber("+-1") = NaN
    /\ StringToNumber("--1") = NaN
    /\ StringToNumber("1 2") = NaN
    /\ StringToNumber("0e5") = Num(0)
    /\ StringToNumber("1.e3") = Num(1000)
    /\ StringToNumber(".e3") = NaN

\* the identifier of a datasource string whose type itself contains '__'
C22_Witness ==
    /\ idLast.op = "getDatasetId"
    /\ idCase.form = "datasource"
    /\ idArg.kind = "string"
    /\ Contains(idArg.s, "__saved__query")
    /\ idCase.n >= 10
    /\ idLast.result = Num(idCase.n)

====
